---- MODULE Spec2Model ----
(***************************************************************************)
(* Model of nolpy: FlushProxy.read_http_res (src/nolpy/sock.py) and        *)
(* ProcessProxy.print (src/nolpy/proc.py).                                 *)
(*                                                                         *)
(* Bytes on an HTTP stream are symbols.  A literal of the wire grammar     *)
(* whose inner bytes never matter to the framing is one symbol:            *)
(*   "H2"  the text "HTTP/1.1 200 OK"        (a status that has a body)    *)
(*   "H3"  the text "HTTP/1.1 304 ..."       (204/304/1xx: never a body)   *)
(*   "CL"  the text "Content-Length: "       (followed by digit symbols)   *)
(*   "TE"  the text "Transfer-Encoding: chunked"                           *)
(*   "XH"  any other header text                                           *)
(*   "CR", "LF", "0".."9" and the payload bytes "x", "z" are single bytes. *)
(***************************************************************************)
EXTENDS Integers, Sequences, FiniteSets, TLC

\* ------------------------------------------------------------------ bounds
MaxBody   == 2      \* longest fixed-length body / chunk, in bytes
MaxChunks == 2      \* most data chunks in one chunked body
MaxMsgs   == 2      \* most messages back to back on one stream
MaxCalls  == 3      \* most read_http_res calls on one stream
MaxProduced == 3    \* most bytes the child writes to one of its streams
MaxRead   == 2      \* bytes one read(4096) returns at most, scaled down
MaxPrints == 2      \* most ProcessProxy.print calls
MaxOps    == 2      \* most operations called on one proxy
MaxWrite  == 2      \* most bytes given to one write
PipeCap   == 2      \* bytes a pipe holds before the child's write waits

\* ------------------------------------------------------------- utilities
Min(S) == CHOOSE x \in S : \A y \in S : x <= y

Take(s, n) == SubSeq(s, 1, IF n < Len(s) THEN n ELSE Len(s))

Drop(s, n) == SubSeq(s, n + 1, Len(s))

IsPrefix(s, t) == Len(s) <= Len(t) /\ SubSeq(t, 1, Len(s)) = s

RECURSIVE Flatten(_)
Flatten(ss) == IF ss = <<>> THEN <<>> ELSE Head(ss) \o Flatten(Tail(ss))

Digits == <<"0", "1", "2", "3", "4", "5", "6", "7", "8", "9">>

DigitSym(n) == Digits[n + 1]

IsDigit(b) == \E i \in 1..Len(Digits) : Digits[i] = b

DigitVal(b) == (CHOOSE i \in 1..Len(Digits) : Digits[i] = b) - 1

CRLF == <<"CR", "LF">>

\* ------------------------------------------------ the HTTP wire (inputs)
\* Payload bytes; two patterns so that a body may start with, or hold, a
\* line feed (a body is read by count, never by line).
PatternA == <<"x", "LF", "x", "LF", "x", "LF">>

PatternB == <<"LF", "x", "LF", "x", "LF", "x">>

Payloads(n) == {Take(PatternA, n), Take(PatternB, n)}

\* A data chunk of a chunked body, or one whose size line is not hexadecimal.
GoodChunks == {[size |-> DigitSym(n), data |-> Take(PatternB, n)] : n \in 1..MaxBody}

BadChunks == {[size |-> "z", data |-> <<"x">>]}

ChunkSeqs(S) == UNION {[1..k -> S] : k \in 0..MaxChunks}

NoChunks == <<>>

\* Message descriptors: what the server meant to send.
FixedMsgs ==
    {[st |-> "H2", xh |-> x, cl |-> Len(b), te |-> FALSE, body |-> b,
      chunks |-> NoChunks, trailer |-> FALSE] :
        x \in BOOLEAN, b \in UNION {Payloads(n) : n \in 0..MaxBody}}

BodilessMsgs ==
    {[st |-> "H3", xh |-> FALSE, cl |-> n, te |-> FALSE, body |-> <<>>,
      chunks |-> NoChunks, trailer |-> FALSE] : n \in -1..MaxBody}

NoLengthMsgs ==
    {[st |-> "H2", xh |-> x, cl |-> -1, te |-> FALSE, body |-> <<>>,
      chunks |-> NoChunks, trailer |-> FALSE] : x \in BOOLEAN}

ChunkedMsgs ==
    {[st |-> "H2", xh |-> FALSE, cl |-> -1, te |-> TRUE, body |-> <<>>,
      chunks |-> cs, trailer |-> t] :
        cs \in ChunkSeqs(GoodChunks), t \in BOOLEAN}
    \cup
    {[st |-> "H2", xh |-> FALSE, cl |-> 1, te |-> TRUE, body |-> <<>>,
      chunks |-> cs, trailer |-> FALSE] : cs \in [1..1 -> GoodChunks]}

BadChunkedMsgs ==
    {[st |-> "H2", xh |-> FALSE, cl |-> -1, te |-> TRUE, body |-> <<>>,
      chunks |-> cs, trailer |-> FALSE] :
        cs \in {c \in ChunkSeqs(GoodChunks \cup BadChunks) :
                   \E i \in 1..Len(c) : c[i] \in BadChunks}}

\* Messages whose own bytes say where they end.
FramedMsgs == FixedMsgs \cup BodilessMsgs \cup ChunkedMsgs

Messages == FramedMsgs \cup NoLengthMsgs \cup BadChunkedMsgs

EncodeChunk(c) == <<c.size>> \o CRLF \o c.data \o CRLF

RECURSIVE EncodeChunks(_)
EncodeChunks(cs) ==
    IF cs = <<>> THEN <<>> ELSE EncodeChunk(Head(cs)) \o EncodeChunks(Tail(cs))

HeaderBlock(m) ==
    <<m.st>> \o CRLF
    \o (IF m.xh THEN <<"XH">> \o CRLF ELSE <<>>)
    \o (IF m.cl >= 0 THEN <<"CL", DigitSym(m.cl)>> \o CRLF ELSE <<>>)
    \o (IF m.te THEN <<"TE">> \o CRLF ELSE <<>>)
    \o CRLF

LastChunk(m) ==
    <<"0">> \o CRLF \o (IF m.trailer THEN <<"XH">> \o CRLF ELSE <<>>) \o CRLF

Encode(m) ==
    HeaderBlock(m)
    \o (IF m.te THEN EncodeChunks(m.chunks) \o LastChunk(m) ELSE m.body)

RECURSIVE EncodeAll(_)
EncodeAll(ms) == IF ms = <<>> THEN <<>> ELSE Encode(Head(ms)) \o EncodeAll(Tail(ms))

\* A few messages of every kind, for streams of several messages.
SeqMsgs ==
    {m \in FixedMsgs : ~m.xh /\ m.body \in {<<>>, Take(PatternB, MaxBody)}}
    \cup {m \in BodilessMsgs : m.cl \in {-1, MaxBody}}
    \cup {m \in NoLengthMsgs : ~m.xh}
    \cup {m \in ChunkedMsgs : /\ m.cl = -1
                              /\ Len(m.chunks) \in {0, MaxChunks}
                              /\ m.trailer = (Len(m.chunks) = 0)
                              /\ \A i \in 1..Len(m.chunks) : Len(m.chunks[i].data) = 1}

MsgSeqs == UNION {[1..k -> SeqMsgs] : k \in 2..MaxMsgs}

\* Bytes that may follow a message and belong to none.
Tails == {<<>>, <<"z">>}

VARIABLES
    wire,        \* every byte the peer sends on the stream before it ends
    msgs,        \* the messages the peer meant wire to carry (descriptors)
    seg,         \* offsets one recv cannot cross (segment / record ends)
    pos,         \* bytes consumed so far from the underlying file _obj
    results,     \* outcome of each read_http_res call so far
    obj_closed,  \* _obj.close() has been called
    closed       \* FlushProxy._closed

httpVars == <<wire, msgs, seg, pos, results, obj_closed, closed>>

\* State of a ProcessProxy and of the child it wraps.
VARIABLES
    produced,    \* bytes the child has written to each of its pipes
    weof,        \* the child has closed its end of the pipe
    err,         \* the pipe is in an error state: a read on it raises
    rpos,        \* bytes the proxy has read from each pipe
    nonblock,    \* O_NONBLOCK is set on the pipe's descriptor
    sink,        \* bytes written to sys.stdout.buffer / sys.stderr.buffer
    p_closed,    \* ProcessProxy._closed
    ppc,         \* where print is: "idle", "select" (in sel.select), "events"
    registered,  \* streams registered with the selector
    fds_active,  \* the list fds_active
    events,      \* what sel.select returned, in the order it reported them
    prints,      \* print calls made so far
    waits,       \* sel.select calls made by the current / last print call (1, or 2 for more)
    wrote,       \* the current / last print call has written to a sink
    flushed,     \* bytes of each sink that have been flushed
    removed,     \* why print unregistered each stream: "no", "eof" (the read
                 \* gave b""), "error" (it gave None: it raised or would block)
    lastReturn   \* how the last print call ended

procVars == <<produced, weof, err, rpos, nonblock, sink, p_closed, ppc, registered,
              fds_active, events, prints, waits, wrote, flushed, removed, lastReturn>>

\* The life of a proxy: how it was made, the operations called on it, and
\* the objects under it.
VARIABLES
    made,        \* the proxy the program holds: "none", "process", "socket", "failed"
    auto_drain,  \* the proxy's _auto_drain
    plan,        \* bytes the child's program writes to each stream in all
    child,       \* the child: "running", "exited", "terminated", "killed"
    sclosed,     \* the ProcessProxy streams that have been closed
    op,          \* the last operation called on the proxy and what it did
    ops,         \* operations called so far
    wp,          \* where waitprint is: "idle", "wait" (in self.wait()), "print"
                 \* (about to call self.print()), "printing" (it has called it)
    obj_kind,    \* what FlushProxy wraps: "SocketIO" or "Duck"
    tmo,         \* the timeout of the socket under a FlushProxy, in seconds
    sk,          \* the socket sock_open connected: "none", "open", "closed"
    fin,         \* the peer of the socket has finished sending: wire ends in EOF
    cm           \* the pysock_url.sock_open context manager: where the with
                 \* statement is, its socket and file object, what it raises

lifeVars == <<made, auto_drain, plan, child, sclosed, op, ops, wp, obj_kind, tmo, sk, fin, cm>>

vars == <<httpVars, procVars, lifeVars>>

\* ------------------------------------------- the underlying file (_obj)
\* read(n) of the unbuffered socket file is one recv: it returns the bytes
\* that are there, at most n and never across a segment boundary, and blocks
\* only while there is none; it returns nothing at the end of the stream.
fp_read(w, sg, p, n) ==
    SubSeq(w, p + 1, Min({p + n, Len(w)} \cup {b \in sg : b > p}))

\* read() without a count reads to the end of the stream.
fp_readall(w, p) == SubSeq(w, p + 1, Len(w))

\* readline() reads byte by byte up to and including the next line feed, or
\* to the end of the stream.
fp_readline(w, p) ==
    LET lfs == {i \in (p + 1)..Len(w) : w[i] = "LF"}
    IN  SubSeq(w, p + 1, IF lfs = {} THEN Len(w) ELSE Min(lfs))

\* ------------------------------------------------------- RecordingFile
\* State of the recorder and of the file under it: pos is the file's
\* position, recorded the recorder's buffer, chunk the last value returned.
RecordingFile_init(p) == [pos |-> p, recorded |-> <<>>, chunk |-> <<>>]

Recorded(rf, chunk) ==
    [pos |-> rf.pos + Len(chunk), recorded |-> rf.recorded \o chunk, chunk |-> chunk]

RecordingFile_read(w, sg, rf, n) == Recorded(rf, fp_read(w, sg, rf.pos, n))

RecordingFile_readall(w, rf) == Recorded(rf, fp_readall(w, rf.pos))

\* Mutant: readline hands the line on without recording it.
RecordingFile_readline_unrecorded(w, rf) ==
    [Recorded(rf, fp_readline(w, rf.pos)) EXCEPT !.recorded = rf.recorded]

RecordingFile_readline(w, rf) == Recorded(rf, fp_readline(w, rf.pos))

\* Mutant: close() of the recorder closes the wrapped file.
RecordingFile_close_delegates(c) == TRUE

\* close() of the recorder is `pass`: the wrapped file keeps its state.
RecordingFile_close(c) == c

\* ------------------------------------- http.client.HTTPResponse, begin()
None == -1

RECURSIVE StripEOL(_)
StripEOL(line) ==
    IF line # <<>> /\ line[Len(line)] \in {"CR", "LF"}
    THEN StripEOL(SubSeq(line, 1, Len(line) - 1))
    ELSE line

RECURSIVE NumVal(_, _)
NumVal(s, base) ==
    IF s = <<>> THEN 0
    ELSE base * NumVal(SubSeq(s, 1, Len(s) - 1), base) + DigitVal(s[Len(s)])

\* int(text, base), None for a ValueError.
ParseInt(s, base) ==
    IF s # <<>> /\ \A i \in 1..Len(s) : IsDigit(s[i]) THEN NumVal(s, base) ELSE None

\* Mutant: an empty status line is not told from a malformed one.
ReadStatus_no_eof_check(w, rf) ==
    LET r == RecordingFile_readline(w, rf)
    IN  [rf |-> r,
         status |-> IF r.chunk # <<>> /\ r.chunk[1] \in {"H2", "H3"} THEN r.chunk[1]
                    ELSE "BadStatusLine"]

\* _read_status: the status class of the first line, or the error raised.
ReadStatus(w, rf) ==
    LET r == RecordingFile_readline(w, rf)
    IN  [rf |-> r,
         status |-> IF r.chunk = <<>> THEN "RemoteDisconnected"
                    ELSE IF r.chunk[1] \in {"H2", "H3"} THEN r.chunk[1]
                    ELSE "BadStatusLine"]

\* One header line folded into what begin() looks up: the first
\* Content-Length value and whether Transfer-Encoding is chunked.
HeaderField(h, line) ==
    IF line[1] = "CL" /\ ~h.clSeen
    THEN [h EXCEPT !.clSeen = TRUE, !.cl = ParseInt(StripEOL(Tail(line)), 10)]
    ELSE IF line[1] = "TE" THEN [h EXCEPT !.te = TRUE]
    ELSE h

\* parse_headers: lines up to the blank line, or to the end of the stream.
RECURSIVE ReadHeaders(_, _, _)
ReadHeaders(w, rf, h) ==
    LET r == RecordingFile_readline(w, rf)
    IN  IF r.chunk \in {CRLF, <<"LF">>, <<>>}
        THEN [rf |-> r, h |-> h]
        ELSE ReadHeaders(w, r, HeaderField(h, r.chunk))

\* Mutant: the status is not looked at.
BodyLength_ignores_status(status, h) ==
    IF h.cl # None /\ ~h.te THEN h.cl ELSE None

\* The body length begin() settles on: None without a usable Content-Length
\* or with chunked encoding, 0 for a status that never has a body.
BodyLength(status, h) ==
    IF status = "H3" THEN 0
    ELSE IF h.cl # None /\ ~h.te THEN h.cl
    ELSE None

\* -------------------------------------- http.client.HTTPResponse, read()
\* Mutant: a short read is not noticed.
SafeRead_unchecked(w, sg, rf, amt) ==
    [rf |-> RecordingFile_read(w, sg, rf, amt), ok |-> TRUE]

\* _safe_read: one read of amt bytes; fewer is an IncompleteRead.
SafeRead(w, sg, rf, amt) ==
    LET r == RecordingFile_read(w, sg, rf, amt)
    IN  [rf |-> r, ok |-> Len(r.chunk) >= amt]

\* _read_and_discard_trailer: lines up to a blank one or the end of stream.
RECURSIVE DiscardTrailer(_, _)
DiscardTrailer(w, rf) ==
    LET r == RecordingFile_readline(w, rf)
    IN  IF r.chunk \in {CRLF, <<"LF">>, <<>>} THEN r ELSE DiscardTrailer(w, r)

\* _read_chunked with _get_chunk_left; chunk_left is None before the first
\* chunk and 0 at the end of one (its CRLF still to be tossed).
RECURSIVE ReadChunked(_, _, _, _)
ReadChunked(w, sg, rf, chunk_left) ==
    LET t == IF chunk_left = 0 THEN SafeRead(w, sg, rf, 2)
             ELSE [rf |-> rf, ok |-> TRUE]
        l == RecordingFile_readline(w, t.rf)
        size == ParseInt(StripEOL(l.chunk), 16)
        d == SafeRead(w, sg, l, size)
    IN  IF ~t.ok THEN [rf |-> t.rf, outcome |-> "IncompleteRead"]
        ELSE IF size = None THEN [rf |-> l, outcome |-> "IncompleteRead"]
        ELSE IF size = 0 THEN [rf |-> DiscardTrailer(w, l), outcome |-> "ok"]
        ELSE IF ~d.ok THEN [rf |-> d.rf, outcome |-> "IncompleteRead"]
        ELSE ReadChunked(w, sg, d.rf, 0)

\* read() with no amount: the whole body by the framing begin() found.
ReadBody(w, sg, rf, chunked, length) ==
    IF chunked THEN ReadChunked(w, sg, rf, None)
    ELSE IF length = None
    THEN [rf |-> RecordingFile_readall(w, rf), outcome |-> "ok"]
    ELSE LET d == SafeRead(w, sg, rf, length)
         IN  [rf |-> d.rf, outcome |-> IF d.ok THEN "ok" ELSE "IncompleteRead"]

\* resp.begin(); resp.read() over a fresh recorder at position p.
Frame(w, sg, p) ==
    LET s == ReadStatus(w, RecordingFile_init(p))
        hs == ReadHeaders(w, s.rf, [clSeen |-> FALSE, cl |-> None, te |-> FALSE])
    IN  IF s.status \notin {"H2", "H3"}
        THEN [rf |-> s.rf, outcome |-> s.status]
        ELSE ReadBody(w, sg, hs.rf, hs.h.te, BodyLength(s.status, hs.h))

\* ------------------------------------------- FlushProxy.read_http_res
\* One call, on a stream whose peer has finished sending (before that, a
\* read at the end of wire waits for more): an "ok" call returns
\* recorder.recorded, any other outcome is the exception raised to the
\* caller; the first readline on a closed file raises ValueError.  HTTPResponse closes its file (the
\* recorder) when it is done with it or is discarded.
ReadHttpRes ==
    /\ Len(results) < MaxCalls
    /\ made = "socket"
    /\ obj_closed \/ fin
    /\ LET f == IF obj_closed
                THEN [outcome |-> "ValueError", rf |-> RecordingFile_init(pos)]
                ELSE Frame(wire, seg, pos)
       IN  /\ pos' = f.rf.pos
           /\ results' = Append(results,
                  [outcome |-> f.outcome,
                   data |-> IF f.outcome = "ok" THEN f.rf.recorded ELSE <<>>,
                   from |-> pos, to |-> f.rf.pos])
    /\ obj_closed' = RecordingFile_close(obj_closed)
    /\ UNCHANGED <<wire, msgs, seg, closed>>
    /\ UNCHANGED <<procVars, lifeVars>>

\* The stream: one message of any kind, perhaps cut short by the peer
\* closing or followed by other bytes; or several messages back to back.
\* Either way the bytes may reach the reader in two segments.
SingleStream ==
    \E m \in Messages, t \in Tails :
        /\ msgs = <<m>>
        /\ \E cut \in 0..Len(Encode(m) \o t) :
               /\ wire = Take(Encode(m) \o t, cut)
               /\ seg \in {{}} \cup
                      (IF cut = Len(Encode(m) \o t)
                       THEN {{b} : b \in 1..(cut - 1)} ELSE {})

SeveralMessages ==
    \E ms \in MsgSeqs :
        /\ msgs = ms
        /\ wire = EncodeAll(ms)
        /\ seg \in {{}} \cup {{b} : b \in 1..(Len(EncodeAll(ms)) - 1)}

\* ======================================================== ProcessProxy
Streams == {"stdout", "stderr"}

\* The k-th byte the child writes to stream s.
ByteOf(s, k) == <<s, k>>

Unread(s) == SubSeq(produced[s], rpos[s] + 1, Len(produced[s]))

\* A registered stream the selector reports readable: data, end of file or
\* an error is pending on it.
Ready(s) == s \in registered /\ (Unread(s) # <<>> \/ weof[s] \/ err[s])

\* ---------------------------------------------------- the child process
\* The child writes the next byte of its output to s.  A write to a pipe
\* that holds PipeCap unread bytes waits until the reader makes room.
Produce(s) ==
    /\ ppc # "events"
    /\ ~weof[s]
    /\ child = "running"
    /\ Len(produced[s]) < plan[s]
    /\ Len(Unread(s)) < PipeCap
    /\ produced' = [produced EXCEPT ![s] = Append(@, ByteOf(s, Len(@) + 1))]
    /\ UNCHANGED <<weof, err, rpos, nonblock, sink, p_closed, ppc, registered,
                   fds_active, events, prints, waits, wrote, flushed, removed, lastReturn>>
    /\ UNCHANGED <<httpVars, lifeVars>>

CloseWriteEnd(s) ==
    /\ ppc # "events"
    /\ ~weof[s]
    /\ weof' = [weof EXCEPT ![s] = TRUE]
    /\ UNCHANGED <<produced, err, rpos, nonblock, sink, p_closed, ppc, registered,
                   fds_active, events, prints, waits, wrote, flushed, removed, lastReturn>>
    /\ UNCHANGED <<httpVars, lifeVars>>

StreamError(s) ==
    /\ ppc # "events"
    /\ ~err[s]
    /\ err' = [err EXCEPT ![s] = TRUE]
    /\ UNCHANGED <<produced, weof, rpos, nonblock, sink, p_closed, ppc, registered,
                   fds_active, events, prints, waits, wrote, flushed, removed, lastReturn>>
    /\ UNCHANGED <<httpVars, lifeVars>>

\* ------------------------------------------------- ProcessProxy.print
\* Mutant: the two streams are registered with each other's sink.
SinkOf_swapped(s) == IF s = "stdout" THEN "stderr" ELSE "stdout"

\* The sink a stream is registered with (the selector key's data).
SinkOf(s) == s

\* Mutant: the loop goes on after a select that returned nothing.
AfterSelect_retry(ev) == "handle"

\* What the loop does with the result of sel.select: leave on no events.
AfterSelect(ev) == IF ev = <<>> THEN "break" ELSE "handle"

\* key.fileobj.read(4096) in non-blocking mode: the bytes, or None when the
\* read raised or had nothing to return.
NoData == <<"None">>

ReadResult(s, st) ==
    IF st.err[s] THEN NoData
    ELSE LET n == Len(st.produced[s]) - st.rpos[s]
         IN  IF n > 0
             THEN SubSeq(st.produced[s], st.rpos[s] + 1,
                         st.rpos[s] + (IF n < MaxRead THEN n ELSE MaxRead))
             ELSE IF st.weof[s] THEN <<>> ELSE NoData

\* Mutant: the sink is written but not flushed.
Flush_skipped(n, written) == n

\* key.data.flush(): everything written to the sink so far is flushed.
Flush(n, written) == written

\* Mutant: a stream's removal empties the selector.
Unregister_all(reg, s) == {}

\* sel.unregister(key.fileobj)
Unregister(reg, s) == reg \ {s}

\* Mutant: the stream stays in fds_active.
Remove_keeps(q, s) == q

Remove(q, s) == SelectSeq(q, LAMBDA x : x # s)

\* The body of the for loop for one event: read, then write and flush, or
\* unregister the stream.
HandleEvent(st, s) ==
    LET data == ReadResult(s, st)
    IN  IF data # NoData /\ data # <<>>
        THEN [st EXCEPT !.rpos[s] = @ + Len(data),
                        !.sink[SinkOf(s)] = @ \o data,
                        !.flushed[SinkOf(s)] =
                            Flush(@, Len(st.sink[SinkOf(s)]) + Len(data)),
                        !.wrote = TRUE]
        ELSE [st EXCEPT !.registered = Unregister(@, s),
                        !.fds_active = Remove(@, s),
                        !.removed[s] = IF data = <<>> THEN "eof" ELSE "error"]

RECURSIVE HandleEvents(_, _)
HandleEvents(st, ev) ==
    IF ev = <<>> THEN st ELSE HandleEvents(HandleEvent(st, Head(ev)), Tail(ev))

\* print up to its first sel.select: return at once on a closed proxy, else
\* make both streams non-blocking, register them, enter the loop.
PrintCall ==
    /\ made = "process"
    /\ ppc = "idle" /\ wp # "wait"
    /\ op.outcome # "hang"
    /\ prints < MaxPrints /\ ops < MaxOps
    /\ prints' = prints + 1
    /\ ops' = ops + 1
    /\ waits' = 0
    /\ wrote' = FALSE
    /\ removed' = [s \in Streams |-> "no"]
    /\ events' = <<>>
    /\ IF p_closed
       THEN /\ lastReturn' = "closed"
            /\ UNCHANGED <<nonblock, registered, fds_active, ppc>>
       ELSE /\ nonblock' = [s \in Streams |-> TRUE]
            /\ registered' = Streams
            /\ fds_active' = <<"stdout", "stderr">>
            /\ ppc' = "select"
            /\ lastReturn' = "running"
    /\ UNCHANGED <<produced, weof, err, rpos, sink, flushed, p_closed>>
    /\ wp' = IF wp = "print" THEN "printing" ELSE wp
    /\ UNCHANGED <<made, auto_drain, plan, child, sclosed, op, obj_kind, tmo, sk, fin, cm>>
    /\ UNCHANGED httpVars

\* sel.select(timeout) returns: the ready streams in the order the selector
\* reports them, or nothing when the timeout passed with none ready.  The
\* system may also report a stream on which a read then finds nothing.
SelectReturns ==
    /\ ppc = "select"
    /\ waits' = (IF waits = 0 THEN 1 ELSE 2)
    /\ ppc' = "events"
    /\ \E spurious \in SUBSET {s \in registered : ~Ready(s)} :
       LET ready == {s \in Streams : Ready(s)} \cup spurious
       IN  events' \in {q \in UNION {[1..k -> ready] : k \in 0..2} :
                           /\ Len(q) = Cardinality(ready)
                           /\ \A s \in ready : \E i \in 1..Len(q) : q[i] = s}
    /\ UNCHANGED <<produced, weof, err, rpos, nonblock, sink, p_closed, registered,
                   fds_active, prints, wrote, flushed, removed, lastReturn>>
    /\ UNCHANGED <<httpVars, lifeVars>>

\* The rest of one loop iteration: break on no events, else handle every
\* event, then test the loop condition; sel.close() on the way out.
HandleSelected ==
    /\ ppc = "events"
    /\ LET st == [rpos |-> rpos, sink |-> sink, flushed |-> flushed, wrote |-> wrote,
                  registered |-> registered, fds_active |-> fds_active,
                  removed |-> removed, produced |-> produced, weof |-> weof,
                  err |-> err]
           after == IF AfterSelect(events) = "break" THEN st
                    ELSE HandleEvents(st, events)
           leave == AfterSelect(events) = "break" \/ after.fds_active = <<>>
       IN  /\ rpos' = after.rpos
           /\ sink' = after.sink
           /\ flushed' = after.flushed
           /\ wrote' = after.wrote
           /\ removed' = after.removed
           /\ fds_active' = after.fds_active
           /\ registered' = IF leave THEN {} ELSE after.registered
           /\ ppc' = IF leave THEN "idle" ELSE "select"
           /\ lastReturn' = IF AfterSelect(events) = "break" THEN "timeout"
                            ELSE IF leave THEN "drained" ELSE lastReturn
    /\ events' = <<>>
    /\ UNCHANGED <<produced, weof, err, nonblock, p_closed, prints, waits>>
    /\ UNCHANGED <<httpVars, lifeVars>>

ProcInit ==
    /\ produced = [s \in Streams |-> <<>>]
    /\ weof = [s \in Streams |-> FALSE]
    /\ err = [s \in Streams |-> FALSE]
    /\ rpos = [s \in Streams |-> 0]
    /\ nonblock = [s \in Streams |-> FALSE]
    /\ sink = [s \in Streams |-> <<>>]
    /\ flushed = [s \in Streams |-> 0]
    /\ p_closed = FALSE
    /\ ppc = "idle"
    /\ registered = {}
    /\ fds_active = <<>>
    /\ events = <<>>
    /\ prints = 0
    /\ waits = 0
    /\ wrote = FALSE
    /\ removed = [s \in Streams |-> "no"]
    /\ lastReturn = "none"

\* No with statement on pysock_url.sock_open has been entered.
NoCm == [state |-> "none", sock |-> "none", file |-> "none", exc |-> "none",
         trace |-> <<>>]

\* No operation has been called yet.
NoOp == [name |-> "none", args |-> <<>>, outcome |-> "none", ret |-> "none",
         n |-> 0, unflushed |-> 0, trace |-> <<>>]

\* A proxy made by sh() around a running child that may write MaxProduced
\* bytes to each stream; no operation but print is called on it.
ShProxy ==
    /\ made = "process" /\ auto_drain = TRUE
    /\ plan = [s \in Streams |-> MaxProduced]
    /\ child = "running" /\ sclosed = {}
    /\ op = NoOp /\ ops = 0 /\ wp = "idle"
    /\ obj_kind = "SocketIO" /\ tmo = 10 /\ sk = "none" /\ fin = TRUE /\ cm = NoCm

\* A proxy made by sock_open() around a connected socket.
SockProxy ==
    /\ made = "socket" /\ auto_drain = TRUE
    /\ plan = [s \in Streams |-> 0]
    /\ child = "running" /\ sclosed = {}
    /\ op = NoOp /\ ops = 0 /\ wp = "idle"
    /\ obj_kind = "SocketIO" /\ tmo = 10 /\ sk = "open" /\ fin = TRUE /\ cm = NoCm

\* ------------------------------------------------------------ exceptions
\* The classes an exception is an instance of.
Bases(exc) ==
    CASE exc \in {"BlockingIOError", "TimeoutError", "BrokenPipeError", "SSLError"}
             -> {exc, "OSError", "Exception"}
      [] OTHER -> {exc, "Exception"}

\* An except clause naming classes handles exc.
Handles(classes, exc) == exc # "none" /\ Bases(exc) \cap classes # {}

\* What is still being raised after a try statement whose except clause
\* names classes and whose body ended raising exc ("none": it did not).
AfterExcept(classes, exc) == IF Handles(classes, exc) THEN "none" ELSE exc

\* The record of one operation: its name and arguments, how it ended
\* ("returned", an exception's name, or "hang" when it never ends), what
\* it returned (ret: "None", "bytes" with n the number of bytes, "count"
\* with n the count), the bytes it left written but unflushed, and the
\* calls it made on the objects under the proxy, in order.
Returned(name, args, ret, n, unflushed, trace) ==
    [name |-> name, args |-> args, outcome |-> "returned", ret |-> ret,
     n |-> n, unflushed |-> unflushed, trace |-> trace]

Raised(name, args, exc, unflushed, trace) ==
    [name |-> name, args |-> args, outcome |-> exc, ret |-> "none",
     n |-> 0, unflushed |-> unflushed, trace |-> trace]

\* An operation can be called: the program holds the proxy, no call on it
\* is in progress, and none has hung.
CanCall(kind) ==
    /\ made = kind
    /\ ppc = "idle" /\ wp \notin {"wait", "print"}
    /\ op.outcome # "hang"
    /\ ops < MaxOps

\* ------------------------------------------- write, send, sendall
\* Mutant: the write is not followed by a flush.
WriteThrough_noflush(obj, k) ==
    [trace |-> <<<<obj, "write">>>>, unflushed |-> k]

\* n = obj.write(data); obj.flush(): the object accepted k bytes.
WriteThrough(obj, k) ==
    [trace |-> <<<<obj, "write">>, <<obj, "flush">>>>, unflushed |-> 0]

\* write returns the count, send returns what write returns, sendall
\* returns None.  The record keeps the count the object reported.
WriteResult(name, obj, k) ==
    LET w == WriteThrough(obj, k)
    IN  IF name = "sendall"
        THEN Returned(name, <<DigitSym(k)>>, "None", 0, w.unflushed, w.trace)
        ELSE Returned(name, <<DigitSym(k)>>, "count", k, w.unflushed, w.trace)

WriteNames == {"write", "send", "sendall"}

\* ProcessProxy.write / send / sendall with len bytes of data, of which
\* stdin accepts k; a write to the pipe of a child that is gone raises.
P_Write(name, len, k) ==
    /\ CanCall("process")
    /\ ops' = ops + 1
    /\ op' = IF p_closed THEN Returned(name, <<>>, IF name = "sendall" THEN "None" ELSE "count", 0, 0, <<>>)
             ELSE IF child # "running"
                  THEN Raised(name, <<>>, "BrokenPipeError", 0, <<<<"stdin", "write">>>>)
                  ELSE WriteResult(name, "stdin", k)
    /\ UNCHANGED <<made, auto_drain, plan, child, sclosed, wp, obj_kind, tmo, sk, fin, cm>>
    /\ UNCHANGED <<httpVars, procVars>>

\* ------------------------------------------- read, recv, readline
ReadNames == {"read", "recv", "readline"}

\* Mutant: read does not look at _closed.
P_ReadClosed_ignored(c) == FALSE

P_ReadClosed(c) == c

\* ProcessProxy.read(1) / recv(1) / readline(1): one byte of stdout, b""
\* at end of file, None when the descriptor is non-blocking and empty; on
\* an empty blocking pipe the call waits.
P_Read(name) ==
    /\ CanCall("process")
    /\ ops' = ops + 1
    /\ LET s == "stdout"
           took == IF ~P_ReadClosed(p_closed) /\ ~err[s] /\ Unread(s) # <<>>
                   THEN 1 ELSE 0
       IN  /\ rpos' = [rpos EXCEPT ![s] = @ + took]
           /\ op' = IF P_ReadClosed(p_closed)
                       THEN Returned(name, <<>>, "bytes", 0, 0, <<>>)
                    ELSE IF "stdout" \in sclosed
                       THEN Raised(name, <<>>, "ValueError", 0, <<<<s, name>>>>)
                    ELSE IF err[s]
                       THEN Raised(name, <<>>, "OSError", 0, <<<<s, name>>>>)
                    ELSE IF took = 1 \/ weof[s]
                       THEN Returned(name, <<>>, "bytes", took, 0, <<<<s, name>>>>)
                    ELSE IF nonblock[s]
                       THEN Returned(name, <<>>, "None", 0, 0, <<<<s, name>>>>)
                    ELSE Raised(name, <<>>, "hang", 0, <<<<s, name>>, <<s, "wait">>>>)
    /\ UNCHANGED <<produced, weof, err, nonblock, sink, p_closed, ppc, registered,
                   fds_active, events, prints, waits, wrote, flushed, removed, lastReturn>>
    /\ UNCHANGED <<made, auto_drain, plan, child, sclosed, wp, obj_kind, tmo, sk, fin, cm>>
    /\ UNCHANGED httpVars

\* -------------------------------------------------- ProcessProxy.drain
\* What can go wrong around the reads of one stream: fileno() on a closed
\* file raises ValueError, each fcntl call may raise OSError.
Faults == {"none", "fileno", "getfl", "setfl", "restore"}

\* The faults of one drain: at most one of the streams is faulty.
FaultMaps == {f \in [Streams -> Faults] : \E s \in Streams : f[s] = "none"}

\* The classes drain's two except clauses name (IOError is OSError).
DrainCatches_narrow == {"OSError"}

DrainCatches == {"OSError", "ValueError"}

\* Mutant: the descriptor is left in the mode it was in.
SetNonblocking_skipped(fl) == fl

\* fl | os.O_NONBLOCK
SetNonblocking(fl) == TRUE

\* Mutant: the finally clause leaves the mode as it is now.
RestoreMode_skipped(found, now) == now

\* The finally clause of both drains: the mode found before the loop is
\* set again (fcntl(fd, F_SETFL, fl); raw_sock.settimeout(original_timeout)).
RestoreMode(found, now) == found

\* The loop `while True: if not stream.read(4096): break` on stream s.  d
\* carries rpos, nonblock, the trace, the exception being raised and
\* whether a read is waiting for data that never comes.
RECURSIVE DrainReads(_, _)
DrainReads(d, s) ==
    LET avail == Len(produced[s]) - d.rpos[s]
        t == Append(d.trace, <<s, "read">>)
    IN  IF err[s] THEN [d EXCEPT !.trace = t, !.exc = "OSError"]
        ELSE IF avail > 0
             THEN DrainReads([d EXCEPT !.trace = t,
                                       !.rpos[s] = @ + (IF avail < MaxRead THEN avail ELSE MaxRead)], s)
        ELSE IF weof[s] \/ d.nonblock[s] THEN [d EXCEPT !.trace = t]
        ELSE [d EXCEPT !.trace = Append(t, <<s, "wait">>), !.hang = TRUE]

\* _drain_stream(stream), with its two try statements.
DrainStream(d, s, fault) ==
    LET fl == d.nonblock[s]
    IN  IF fault = "fileno"
        THEN [d EXCEPT !.trace = Append(@, <<s, "fileno">>),
                       !.exc = AfterExcept(DrainCatches, "ValueError")]
        ELSE IF fault = "getfl"
        THEN [d EXCEPT !.trace = @ \o <<<<s, "fileno">>, <<s, "getfl">>>>,
                       !.exc = AfterExcept(DrainCatches, "OSError")]
        ELSE IF fault = "setfl"
        THEN [d EXCEPT !.trace = @ \o <<<<s, "fileno">>, <<s, "getfl">>, <<s, "setfl">>>>,
                       !.exc = AfterExcept(DrainCatches, "OSError")]
        ELSE LET d1 == [d EXCEPT !.trace = @ \o <<<<s, "fileno">>, <<s, "getfl">>, <<s, "setfl">>>>,
                                 !.nonblock[s] = SetNonblocking(fl)]
                 d2 == DrainReads(d1, s)
                 d3 == [d2 EXCEPT !.exc = AfterExcept(DrainCatches, @)]
                 d4 == IF fault = "restore"
                       THEN [d3 EXCEPT !.trace = Append(@, <<s, "setfl">>),
                                       !.exc = "OSError"]
                       ELSE [d3 EXCEPT !.trace = Append(@, <<s, "setfl">>),
                                       !.nonblock[s] = RestoreMode(fl, @)]
             IN  IF d2.hang THEN d2
                 ELSE [d4 EXCEPT !.exc = AfterExcept(DrainCatches, @)]

\* drain(): nothing on a closed proxy, else stdout, then stderr.
P_DrainBody(d, fault) ==
    IF p_closed THEN d
    ELSE LET a == DrainStream(d, "stdout", fault["stdout"])
         IN  IF a.exc # "none" \/ a.hang THEN a
             ELSE DrainStream(a, "stderr", fault["stderr"])

\* How an operation that ran a body of calls ended.
Ended(name, args, d) ==
    IF d.hang THEN Raised(name, args, "hang", 0, d.trace)
    ELSE IF d.exc # "none" THEN Raised(name, args, d.exc, 0, d.trace)
    ELSE Returned(name, args, "None", 0, 0, d.trace)

P_Drain(fault) ==
    /\ CanCall("process")
    /\ ops' = ops + 1
    /\ LET d == P_DrainBody([rpos |-> rpos, nonblock |-> nonblock, trace |-> <<>>,
                             exc |-> "none", hang |-> FALSE], fault)
       IN  /\ rpos' = d.rpos
           /\ nonblock' = d.nonblock
           /\ op' = Ended("drain", <<fault["stdout"], fault["stderr"]>>, d)
    /\ UNCHANGED <<produced, weof, err, sink, p_closed, ppc, registered,
                   fds_active, events, prints, waits, wrote, flushed, removed, lastReturn>>
    /\ UNCHANGED <<made, auto_drain, plan, child, sclosed, wp, obj_kind, tmo, sk, fin, cm>>
    /\ UNCHANGED httpVars

\* -------------------------------------------------- ProcessProxy.close
\* Mutant: close does not look at _closed.
AlreadyClosed_ignored(c) == FALSE

\* if not self._closed
AlreadyClosed(c) == c

\* Mutant: close drains whatever auto_drain says.
DrainOnClose_always(a) == TRUE

\* if self._auto_drain: self.drain()
DrainOnClose(a) == a

\* close(): nothing once closed; else the drain if asked for, the three
\* streams closed, and a child that still runs is terminated, or killed
\* when it does not exit within the wait (dies says whether it does).
P_Close(fault, dies) ==
    /\ CanCall("process")
    /\ ops' = ops + 1
    /\ LET d0 == [rpos |-> rpos, nonblock |-> nonblock, trace |-> <<>>,
                  exc |-> "none", hang |-> FALSE]
           d == IF ~AlreadyClosed(p_closed) /\ DrainOnClose(auto_drain)
                THEN P_DrainBody(d0, fault) ELSE d0
           stopped == d.exc # "none" \/ d.hang
           t1 == d.trace \o <<<<"stdin", "close">>, <<"stdout", "close">>, <<"stderr", "close">>>>
           t2 == t1 \o (IF child # "running" THEN <<<<"proc", "poll">>>>
                        ELSE <<<<"proc", "poll">>, <<"proc", "terminate">>, <<"proc", "wait">>>>
                             \o (IF dies THEN <<>> ELSE <<<<"proc", "poll">>, <<"proc", "kill">>>>))
       IN  IF AlreadyClosed(p_closed)
           THEN /\ op' = Returned("close", <<>>, "None", 0, 0, <<>>)
                /\ UNCHANGED <<rpos, nonblock, sclosed, child, p_closed>>
           ELSE IF stopped
           THEN /\ op' = Ended("close", <<>>, d)
                /\ rpos' = d.rpos /\ nonblock' = d.nonblock
                /\ UNCHANGED <<sclosed, child, p_closed>>
           ELSE /\ op' = Returned("close", <<>>, "None", 0, 0, t2)
                /\ rpos' = d.rpos /\ nonblock' = d.nonblock
                /\ sclosed' = {"stdin", "stdout", "stderr"}
                /\ child' = IF child # "running" THEN child
                            ELSE IF dies THEN "terminated" ELSE "killed"
                /\ p_closed' = TRUE
    /\ UNCHANGED <<produced, weof, err, sink, ppc, registered,
                   fds_active, events, prints, waits, wrote, flushed, removed, lastReturn>>
    /\ UNCHANGED <<made, auto_drain, plan, wp, obj_kind, tmo, sk, fin, cm>>
    /\ UNCHANGED httpVars

\* sh(cmd, auto_drain=a): a proxy around a child that by now has written
\* nout / nerr bytes to its streams, closed those in ends and will write no
\* more; the streams in bad are in an error state.
Sh(a, nout, nerr, ends, bad) ==
    /\ made = "none"
    /\ made' = "process"
    /\ auto_drain' = a
    /\ plan' = [s \in Streams |-> IF s = "stdout" THEN nout ELSE nerr]
    /\ produced' = [s \in Streams |-> [k \in 1..plan'[s] |-> ByteOf(s, k)]]
    /\ weof' = [s \in Streams |-> s \in ends]
    /\ err' = [s \in Streams |-> s \in bad]
    /\ child' = IF ends = Streams THEN "exited" ELSE "running"
    /\ UNCHANGED <<rpos, nonblock, sink, p_closed, ppc, registered,
                   fds_active, events, prints, waits, wrote, flushed, removed, lastReturn>>
    /\ UNCHANGED <<sclosed, op, ops, wp, obj_kind, tmo, sk, fin, cm>>
    /\ UNCHANGED httpVars

\* ========================================================== FlushProxy
\* FlushProxy.write / send / sendall: no look at _closed; a write on a
\* closed file raises ValueError.
F_Write(name, len, k) ==
    /\ CanCall("socket")
    /\ ops' = ops + 1
    /\ op' = IF obj_closed
             THEN Raised(name, <<>>, "ValueError", 0, <<<<"obj", "write">>>>)
             ELSE WriteResult(name, "obj", k)
    /\ UNCHANGED <<made, auto_drain, plan, child, sclosed, wp, obj_kind, tmo, sk, fin, cm>>
    /\ UNCHANGED <<httpVars, procVars>>

\* FlushProxy.read(1) / recv(1) / readline(1): straight to the file.  On
\* a closed file it raises ValueError; with nothing to read and the peer
\* still there it waits for the socket's timeout and raises, or returns
\* None at once when the timeout is 0.
F_Read(name) ==
    /\ CanCall("socket")
    /\ ops' = ops + 1
    /\ LET took == IF ~obj_closed /\ pos < Len(wire) THEN 1 ELSE 0
       IN  /\ pos' = pos + took
           /\ op' = IF obj_closed
                       THEN Raised(name, <<>>, "ValueError", 0, <<<<"obj", name>>>>)
                    ELSE IF took = 1 \/ fin
                       THEN Returned(name, <<>>, "bytes", took, 0, <<<<"obj", name>>>>)
                    ELSE IF tmo = 0
                       THEN Returned(name, <<>>, "None", 0, 0, <<<<"obj", name>>>>)
                    ELSE Raised(name, <<>>, "TimeoutError", 0,
                                <<<<"obj", name>>, <<"obj", "wait">>>>)
    /\ UNCHANGED <<wire, msgs, seg, results, obj_closed, closed>>
    /\ UNCHANGED <<made, auto_drain, plan, child, sclosed, wp, obj_kind, tmo, sk, fin, cm>>
    /\ UNCHANGED procVars

\* --------------------------------------------------- FlushProxy.drain
\* hasattr(raw_sock, "settimeout"), raw_sock being _obj.raw or else _obj:
\* the SocketIO that sock_open wraps has neither raw nor settimeout.
HasSetTimeout(kind) == kind = "Duck"

SockFaults == {"none", "gettimeout", "settimeout", "restore"}

\* What a read with nothing to return does at timeout 0.
WouldBlock == {"None", "BlockingIOError"}

FlushDrainInner == {"OSError", "BlockingIOError"}

FlushDrainOuter == {"Exception"}

\* The loop `while True: if not self._obj.read(4096): break`.
RECURSIVE FlushDrainReads(_, _)
FlushDrainReads(d, wb) ==
    LET avail == Len(wire) - d.pos
        t == Append(d.trace, <<"obj", "read">>)
    IN  IF obj_closed THEN [d EXCEPT !.trace = t, !.exc = "ValueError"]
        ELSE IF avail > 0
             THEN FlushDrainReads([d EXCEPT !.trace = t,
                                       !.pos = @ + (IF avail < MaxRead THEN avail ELSE MaxRead)], wb)
        ELSE IF fin THEN [d EXCEPT !.trace = t]
        ELSE IF d.tmo = 0
             THEN [d EXCEPT !.trace = t,
                            !.exc = IF wb = "None" THEN "none" ELSE "BlockingIOError"]
             ELSE [d EXCEPT !.trace = Append(t, <<"obj", "wait">>),
                            !.exc = "TimeoutError"]

\* drain(): d carries pos, tmo, the trace and the exception being raised.
F_DrainBody(d, fault, wb) ==
    IF ~HasSetTimeout(obj_kind) THEN d
    ELSE IF fault = "gettimeout"
    THEN [d EXCEPT !.trace = Append(@, <<"raw", "gettimeout">>),
                   !.exc = AfterExcept(FlushDrainOuter, "OSError")]
    ELSE IF fault = "settimeout"
    THEN [d EXCEPT !.trace = @ \o <<<<"raw", "gettimeout">>, <<"raw", "settimeout">>>>,
                   !.exc = AfterExcept(FlushDrainOuter, "OSError")]
    ELSE LET original_timeout == d.tmo
             d1 == [d EXCEPT !.trace = @ \o <<<<"raw", "gettimeout">>, <<"raw", "settimeout">>>>,
                             !.tmo = 0]
             d2 == FlushDrainReads(d1, wb)
             d3 == [d2 EXCEPT !.exc = AfterExcept(FlushDrainInner, @)]
             d4 == IF fault = "restore"
                   THEN [d3 EXCEPT !.trace = Append(@, <<"raw", "settimeout">>),
                                   !.exc = "OSError"]
                   ELSE [d3 EXCEPT !.trace = Append(@, <<"raw", "settimeout">>),
                                   !.tmo = RestoreMode(original_timeout, @)]
         IN  [d4 EXCEPT !.exc = AfterExcept(FlushDrainOuter, @)]

F_Drain(fault, wb) ==
    /\ CanCall("socket")
    /\ ops' = ops + 1
    /\ LET d == F_DrainBody([pos |-> pos, tmo |-> tmo, trace |-> <<>>,
                             exc |-> "none", hang |-> FALSE], fault, wb)
       IN  /\ pos' = d.pos
           /\ tmo' = d.tmo
           /\ op' = Ended("drain", <<fault, wb>>, d)
    /\ UNCHANGED <<wire, msgs, seg, results, obj_closed, closed>>
    /\ UNCHANGED <<made, auto_drain, plan, child, sclosed, wp, obj_kind, sk, fin, cm>>
    /\ UNCHANGED procVars

\* --------------------------------------------------- FlushProxy.close
\* close(): nothing once closed; else the drain if asked for, then
\* _obj.close().
F_Close(fault, wb) ==
    /\ CanCall("socket")
    /\ ops' = ops + 1
    /\ LET d0 == [pos |-> pos, tmo |-> tmo, trace |-> <<>>,
                  exc |-> "none", hang |-> FALSE]
           d == IF ~AlreadyClosed(closed) /\ DrainOnClose(auto_drain)
                THEN F_DrainBody(d0, fault, wb) ELSE d0
       IN  IF AlreadyClosed(closed)
           THEN /\ op' = Returned("close", <<>>, "None", 0, 0, <<>>)
                /\ UNCHANGED <<pos, tmo, obj_closed, closed>>
           ELSE IF d.exc # "none"
           THEN /\ op' = Ended("close", <<>>, d)
                /\ pos' = d.pos /\ tmo' = d.tmo
                /\ UNCHANGED <<obj_closed, closed>>
           ELSE /\ op' = Returned("close", <<>>, "None", 0, 0,
                                  Append(d.trace, <<"obj", "close">>))
                /\ pos' = d.pos /\ tmo' = d.tmo
                /\ obj_closed' = TRUE
                /\ closed' = TRUE
    /\ UNCHANGED <<wire, msgs, seg, results>>
    /\ UNCHANGED <<made, auto_drain, plan, child, sclosed, wp, obj_kind, sk, fin, cm>>
    /\ UNCHANGED procVars

\* ------------------------------------------------ ProcessProxy.waitprint
\* The child exits once it has written all its output; exiting closes its
\* ends of the pipes.
ChildExit ==
    /\ child = "running"
    /\ ppc # "events"
    /\ \A s \in Streams : Len(produced[s]) = plan[s]
    /\ child' = "exited"
    /\ weof' = [s \in Streams |-> TRUE]
    /\ UNCHANGED <<produced, err, rpos, nonblock, sink, p_closed, ppc, registered,
                   fds_active, events, prints, waits, wrote, flushed, removed, lastReturn>>
    /\ UNCHANGED <<made, auto_drain, plan, sclosed, op, ops, wp, obj_kind, tmo, sk, fin, cm>>
    /\ UNCHANGED httpVars

\* waitprint() is called and enters self.wait(), which is Popen.wait().
WaitPrintCall ==
    /\ CanCall("process")
    /\ prints < MaxPrints
    /\ wp' = "wait"
    /\ UNCHANGED <<made, auto_drain, plan, child, sclosed, op, ops, obj_kind, tmo, sk, fin, cm>>
    /\ UNCHANGED <<httpVars, procVars>>

\* self.wait() returns: the child has exited.  self.print() is next.
WaitReturns ==
    /\ wp = "wait"
    /\ child # "running"
    /\ wp' = "print"
    /\ UNCHANGED <<made, auto_drain, plan, child, sclosed, op, ops, obj_kind, tmo, sk, fin, cm>>
    /\ UNCHANGED <<httpVars, procVars>>

\* waitprint has returned.
WaitPrintDone == wp = "printing" /\ ppc = "idle"

\* ----------------------------------------------------------- sock_open
Urls == {"ok", "nohost", "noport"}

Schemes == {"tcp", "tls", "ssl", "http"}

\* What context.wrap_socket does: the handshake succeeds, fails with an
\* ssl.SSLError (alert, wrong version, bad certificate), or fails with
\* another OSError (it timed out, the peer reset the connection).
WrapOutcomes == {"ok", "SSLError", "TimeoutError"}

Outcomes == {"ok", "OSError"}

\* The body of sock_open after the URL check, as calls on the socket, the
\* exception that leaves the function ("none": it returns the proxy) and
\* the state the socket is left in.
SockOpenResult(url, conn, nodelay, scheme, wrap, mkfile) ==
    IF url # "ok"
    THEN [exc |-> "SocketURLError", sock |-> "none", trace |-> <<>>]
    ELSE IF conn # "ok"
    THEN [exc |-> IF Handles({"OSError"}, conn) THEN "SocketURLError" ELSE conn,
          sock |-> "none", trace |-> <<<<"socket", "create_connection">>>>]
    ELSE IF nodelay # "ok"
    THEN [exc |-> IF Handles({"OSError"}, nodelay) THEN "SocketURLError" ELSE nodelay,
          sock |-> "open",
          trace |-> <<<<"socket", "create_connection">>, <<"sock", "setsockopt">>>>]
    ELSE LET t0 == <<<<"socket", "create_connection">>, <<"sock", "setsockopt">>>>
             \* the if / elif on the scheme, inside the second try
             inner ==
                 IF scheme \in {"tls", "ssl"}
                 THEN IF wrap = "ok"
                      THEN [exc |-> "none", trace |-> Append(t0, <<"context", "wrap_socket">>)]
                      ELSE IF Handles({"SSLError"}, wrap)
                      THEN [exc |-> "SocketURLError",
                            trace |-> t0 \o <<<<"context", "wrap_socket">>, <<"sock", "close">>>>]
                      ELSE [exc |-> wrap, trace |-> Append(t0, <<"context", "wrap_socket">>)]
                 ELSE IF scheme # "tcp"
                 THEN [exc |-> "SocketURLError", trace |-> Append(t0, <<"sock", "close">>)]
                 ELSE [exc |-> "none", trace |-> t0]
             made_file ==
                 IF inner.exc # "none" THEN inner
                 ELSE [exc |-> IF mkfile = "ok" THEN "none" ELSE mkfile,
                       trace |-> Append(inner.trace, <<"sock", "makefile">>)]
         IN  \* except Exception: sock.close(); raise
             IF Handles({"Exception"}, made_file.exc)
             THEN [exc |-> made_file.exc, sock |-> "closed",
                   trace |-> Append(made_file.trace, <<"sock", "close">>)]
             ELSE [exc |-> "none", sock |-> "open", trace |-> made_file.trace]

\* The bytes a peer has sent by the time the program looks: none, one, or
\* more than one read(4096) returns.
Buffered == {[k \in 1..n |-> "x"] : n \in {0, 1, MaxRead + 1}}

\* sock_open(url, auto_drain=a): on success the proxy wraps the SocketIO
\* of a socket whose timeout is the connection timeout; w is what the peer
\* sends and f whether it then finishes.
SockOpen(url, conn, nodelay, scheme, wrap, mkfile, a, w, f) ==
    /\ made = "none"
    /\ LET r == SockOpenResult(url, conn, nodelay, scheme, wrap, mkfile)
           args == <<url, conn, nodelay, scheme, wrap, mkfile>>
       IN  /\ sk' = r.sock
           /\ IF r.exc = "none"
              THEN /\ made' = "socket"
                   /\ op' = Returned("sock_open", args, "proxy", 0, 0, r.trace)
                   /\ auto_drain' = a /\ wire' = w /\ fin' = f
              ELSE /\ made' = "failed"
                   /\ op' = Raised("sock_open", args, r.exc, 0, r.trace)
                   /\ UNCHANGED <<auto_drain, wire, fin>>
    /\ obj_kind' = "SocketIO"
    /\ tmo' = 10
    /\ UNCHANGED <<msgs, seg, pos, results, obj_closed, closed>>
    /\ UNCHANGED <<plan, child, sclosed, ops, wp, cm>>
    /\ UNCHANGED procVars

\* ------------------------------------------------- pysock_url.sock_open
\* Mutant: the finally clause closes the file object only.
PysockFinally_file_only(c) ==
    IF c.file = "none" THEN [c EXCEPT !.state = "left"]
    ELSE [c EXCEPT !.state = "left", !.file = "closed",
                   !.trace = Append(@, <<"file_obj", "close">>)]

\* finally: if file_obj: file_obj.close(); sock.close().  Control then
\* leaves the context manager, with the exception being raised if any.
PysockFinally(c) ==
    LET c1 == IF c.file = "none" THEN c
              ELSE [c EXCEPT !.file = "closed",
                             !.trace = Append(@, <<"file_obj", "close">>)]
    IN  [c1 EXCEPT !.state = "left", !.sock = "closed",
                   !.trace = Append(@, <<"sock", "close">>)]

\* The generator up to its yield: the URL check, the connection, then
\* inside the try the TLS wrapping or the scheme check and makefile.
PysockSetup(url, conn, scheme, wrap, mkfile) ==
    IF url # "ok"
    THEN [NoCm EXCEPT !.state = "left", !.exc = "SocketURLError"]
    ELSE IF conn # "ok"
    THEN [NoCm EXCEPT !.state = "left",
                      !.exc = IF Handles({"OSError"}, conn) THEN "SocketURLError" ELSE conn,
                      !.trace = <<<<"socket", "create_connection">>>>]
    ELSE LET c0 == [NoCm EXCEPT !.sock = "open",
                                !.trace = <<<<"socket", "create_connection">>>>]
             tried ==
                 IF scheme \in {"tls", "ssl"}
                 THEN IF wrap = "ok"
                      THEN [c0 EXCEPT !.trace = Append(@, <<"context", "wrap_socket">>)]
                      ELSE IF Handles({"SSLError"}, wrap)
                      THEN [c0 EXCEPT !.sock = "closed", !.exc = "SocketURLError",
                                      !.trace = @ \o <<<<"context", "wrap_socket">>,
                                                       <<"sock", "close">>>>]
                      ELSE [c0 EXCEPT !.exc = wrap,
                                      !.trace = Append(@, <<"context", "wrap_socket">>)]
                 ELSE IF scheme # "tcp"
                 THEN [c0 EXCEPT !.sock = "closed", !.exc = "SocketURLError",
                                 !.trace = Append(@, <<"sock", "close">>)]
                 ELSE c0
             filed ==
                 IF tried.exc # "none" THEN tried
                 ELSE IF mkfile = "ok"
                      THEN [tried EXCEPT !.file = "open",
                                         !.trace = Append(@, <<"sock", "makefile">>)]
                      ELSE [tried EXCEPT !.exc = mkfile,
                                         !.trace = Append(@, <<"sock", "makefile">>)]
         IN  IF filed.exc # "none" THEN PysockFinally(filed)
             ELSE [filed EXCEPT !.state = "body"]

\* with sock_open(url) as f: the with statement is entered; it either
\* raises or reaches its body.
PysockEnter(url, conn, scheme, wrap, mkfile) ==
    /\ made = "none"
    /\ cm' = PysockSetup(url, conn, scheme, wrap, mkfile)
    /\ made' = IF cm'.state = "body" THEN "context" ELSE "failed"
    /\ UNCHANGED <<auto_drain, plan, child, sclosed, op, ops, wp, obj_kind, tmo, sk, fin>>
    /\ UNCHANGED <<httpVars, procVars>>

\* How the body of the with statement ends: normally, having closed the
\* file itself, or raising.
Bodies == {"normal", "closes_file", "raises"}

\* The body ends and the generator resumes at its yield, into finally.
PysockExit(body) ==
    /\ made = "context" /\ cm.state = "body"
    /\ cm' = PysockFinally([cm EXCEPT !.exc = IF body = "raises" THEN "BodyError" ELSE "none",
                                      !.file = IF body = "closes_file" THEN "closed" ELSE @])
    /\ UNCHANGED <<made, auto_drain, plan, child, sclosed, op, ops, wp, obj_kind, tmo, sk, fin>>
    /\ UNCHANGED <<httpVars, procVars>>

\* FlushProxy(obj, auto_drain=a) around a file object whose raw attribute
\* is a socket with gettimeout and settimeout.
WrapDuck(a, w, f) ==
    /\ made = "none"
    /\ made' = "socket"
    /\ obj_kind' = "Duck"
    /\ auto_drain' = a /\ wire' = w /\ fin' = f
    /\ tmo' = 10
    /\ sk' = "open"
    /\ UNCHANGED <<msgs, seg, pos, results, obj_closed, closed>>
    /\ UNCHANGED <<plan, child, sclosed, op, ops, wp, cm>>
    /\ UNCHANGED procVars

\* ------------------------------------------------------ specifications
\* read_http_res on a stream; no process is involved.
HttpInit ==
    /\ SingleStream \/ SeveralMessages
    /\ pos = 0
    /\ results = <<>>
    /\ obj_closed = FALSE
    /\ closed = FALSE
    /\ ProcInit
    /\ SockProxy

HttpNext == ReadHttpRes

SpecHttp == HttpInit /\ [][HttpNext]_vars

\* print on a child process; no socket is involved.
PrintInit ==
    /\ wire = <<>> /\ msgs = <<>> /\ seg = {} /\ pos = 0
    /\ results = <<>> /\ obj_closed = FALSE /\ closed = FALSE
    /\ ProcInit
    /\ ShProxy

PrintNext ==
    \/ \E s \in Streams : Produce(s)
    \/ \E s \in Streams : CloseWriteEnd(s)
    \/ \E s \in Streams : StreamError(s)
    \/ PrintCall
    \/ SelectReturns
    \/ HandleSelected

\* The life of one proxy, from the call that makes it: the child, or the
\* peer, has sent what it sends before the first operation.
LifeInit ==
    /\ wire = <<>> /\ msgs = <<>> /\ seg = {} /\ pos = 0
    /\ results = <<>> /\ obj_closed = FALSE /\ closed = FALSE
    /\ ProcInit
    /\ made = "none" /\ auto_drain = TRUE
    /\ plan = [s \in Streams |-> 0]
    /\ child = "running" /\ sclosed = {}
    /\ op = NoOp /\ ops = 0 /\ wp = "idle"
    /\ obj_kind = "SocketIO" /\ tmo = 10 /\ sk = "none" /\ fin = FALSE /\ cm = NoCm

LifeNext ==
    \/ \E a \in BOOLEAN, nout \in {0, MaxRead + 1}, nerr \in {0, 1},
          ends \in {{}, {"stderr"}, Streams}, bad \in {{}, {"stdout"}} :
           Sh(a, nout, nerr, ends, bad)
    \/ \E name \in WriteNames : \E k \in 1..MaxWrite : P_Write(name, MaxWrite, k)
    \/ \E name \in ReadNames : P_Read(name)
    \/ \E fault \in FaultMaps : P_Drain(fault)
    \/ \E fault \in FaultMaps, dies \in BOOLEAN : P_Close(fault, dies)
    \/ PrintCall
    \/ SelectReturns
    \/ HandleSelected
    \/ \E url \in Urls, conn \in Outcomes, nodelay \in Outcomes, scheme \in Schemes,
          wrap \in WrapOutcomes, mkfile \in Outcomes, a \in BOOLEAN,
          w \in Buffered, f \in BOOLEAN :
           SockOpen(url, conn, nodelay, scheme, wrap, mkfile, a, w, f)
    \/ \E a \in BOOLEAN, w \in Buffered, f \in BOOLEAN : WrapDuck(a, w, f)
    \/ \E url \in Urls, conn \in Outcomes, scheme \in Schemes,
          wrap \in WrapOutcomes, mkfile \in Outcomes :
           PysockEnter(url, conn, scheme, wrap, mkfile)
    \/ \E body \in Bodies : PysockExit(body)
    \/ \E name \in WriteNames : \E k \in 1..MaxWrite : F_Write(name, MaxWrite, k)
    \/ \E name \in ReadNames : F_Read(name)
    \/ \E fault \in SockFaults, wb \in WouldBlock : F_Drain(fault, wb)
    \/ \E fault \in SockFaults, wb \in WouldBlock : F_Close(fault, wb)
    \/ ReadHttpRes

SpecLife == LifeInit /\ [][LifeNext]_vars

\* waitprint on a child that writes its output and exits.
WaitInit ==
    /\ wire = <<>> /\ msgs = <<>> /\ seg = {} /\ pos = 0
    /\ results = <<>> /\ obj_closed = FALSE /\ closed = FALSE
    /\ ProcInit
    /\ made = "process" /\ auto_drain = TRUE
    /\ plan \in [Streams -> 0..MaxProduced]
    /\ child = "running" /\ sclosed = {}
    /\ op = NoOp /\ ops = 0 /\ wp = "idle"
    /\ obj_kind = "SocketIO" /\ tmo = 10 /\ sk = "none" /\ fin = TRUE /\ cm = NoCm

WaitNext ==
    \/ \E s \in Streams : Produce(s)
    \/ ChildExit
    \/ WaitPrintCall
    \/ WaitReturns
    \/ PrintCall
    \/ SelectReturns
    \/ HandleSelected

SpecWait == WaitInit /\ [][WaitNext]_vars

\* The system runs the child on, and the interpreter the call.
SpecWaitFair ==
    /\ SpecWait
    /\ WF_vars(\E s \in Streams : Produce(s))
    /\ WF_vars(ChildExit)
    /\ WF_vars(WaitReturns)
    /\ WF_vars(PrintCall /\ wp = "print")
    /\ WF_vars(SelectReturns \/ HandleSelected)

SpecPrint == PrintInit /\ [][PrintNext]_vars

\* The interpreter runs a started print call on: its select returns within
\* the timeout and its loop body runs.
SpecPrintFair == SpecPrint /\ WF_vars(SelectReturns \/ HandleSelected)

\* ============================================================ HTTP claims
Complete(m) == Len(wire) >= Len(Encode(m))

\* End offset of the j-th message on a stream that carries msgs whole.
MsgEnd(j) == Len(EncodeAll(SubSeq(msgs, 1, j)))

AllOk(j) == \A i \in 1..j : results[i].outcome = "ok"

\* C1: a response that declares Content-Length n (no chunked encoding) on a
\* stream that holds its n body bytes is returned whole: status line,
\* headers, blank line and the n body bytes, byte for byte.
C1_ContentLengthVerbatim ==
    (Len(results) >= 1 /\ msgs[1] \in FixedMsgs /\ Complete(msgs[1]))
        => /\ results[1].outcome = "ok"
           /\ results[1].data = Encode(msgs[1])

\* C2: a chunked response is returned whole (header block, every size line,
\* chunk, chunk CRLF, the zero-size line and the final terminator), and the
\* call stops reading right after that terminator.
C2_ChunkedVerbatim ==
    (Len(results) >= 1 /\ msgs[1] \in ChunkedMsgs /\ Complete(msgs[1]))
        => /\ results[1].outcome = "ok"
           /\ results[1].data = Encode(msgs[1])
           /\ results[1].to = Len(Encode(msgs[1]))

C4_NeverCloses == ~obj_closed /\ ~closed

C4_Witness ==
    /\ Len(results) >= 2
    /\ results[1].outcome = "ok"
    /\ results[2].outcome = "IncompleteRead"
    /\ ~obj_closed

\* Offsets, in the encoding of one message, of the byte that declares the
\* body length, of the Transfer-Encoding header, and of the size digit of
\* the zero-size chunk.
ClDigitAt(m) == 3 + (IF m.xh THEN 3 ELSE 0) + 2

TeAt(m) == 3 + (IF m.xh THEN 3 ELSE 0) + (IF m.cl >= 0 THEN 4 ELSE 0) + 1

ZeroAt(m) == Len(HeaderBlock(m) \o EncodeChunks(m.chunks)) + 1

DeclaresTE(m) == m.te /\ Len(wire) >= TeAt(m)

DeclaresCL(m) == m.cl >= 0 /\ Len(wire) >= ClDigitAt(m)

\* Bytes of the stream that lie after the header block of m.
BodyBytesOnWire(m) ==
    IF Len(wire) > Len(HeaderBlock(m)) THEN Len(wire) - Len(HeaderBlock(m)) ELSE 0

\* The stream ends before the declared Content-Length bytes are there.
EndsInFixedBody(m) ==
    /\ m.st = "H2" /\ DeclaresCL(m) /\ ~DeclaresTE(m)
    /\ BodyBytesOnWire(m) < m.cl

\* The stream ends before the zero-size chunk is there.
EndsInChunkedBody(m) == DeclaresTE(m) /\ Len(wire) < ZeroAt(m)

\* A chunk-size line that is not hexadecimal is on the stream.
BadChunkSize(m) == m \in BadChunkedMsgs /\ DeclaresTE(m)

C5_WitnessFixed ==
    /\ Len(results) >= 1 /\ Len(msgs) = 1
    /\ EndsInFixedBody(msgs[1]) /\ msgs[1].cl = MaxBody
    /\ BodyBytesOnWire(msgs[1]) = MaxBody - 1
    /\ results[1].outcome = "IncompleteRead"

NoFraming(m) == m.cl = None /\ ~m.te

C6_WitnessBodiless ==
    /\ Len(results) >= 1 /\ Len(msgs) = MaxMsgs
    /\ NoFraming(msgs[1]) /\ msgs[1].st = "H3"
    /\ results[1].to = Len(HeaderBlock(msgs[1]))
    /\ Len(wire) > Len(HeaderBlock(msgs[1]))

\* The call j that follows the call which consumed the only message and
\* left the stream at its end.
AfterOnlyMessage(j) ==
    /\ j = 2 /\ Len(results) >= 2 /\ Len(msgs) = 1
    /\ results[1].outcome = "ok"
    /\ results[1].to = Len(wire)

\* C7 as stated: the second call, on the exhausted stream, returns an
\* empty result.
C7_SecondCallReturnsEmpty ==
    AfterOnlyMessage(2) => (results[2].outcome = "ok" /\ results[2].data = <<>>)

\* C7 amended: the second call, on the exhausted stream, returns nothing:
\* it raises RemoteDisconnected, having consumed no byte.
C7_SecondCallDisconnected ==
    AfterOnlyMessage(2)
        => /\ results[2].outcome = "RemoteDisconnected"
           /\ results[2].data = <<>>
           /\ results[2].to = results[2].from

C7_Witness ==
    /\ AfterOnlyMessage(2)
    /\ msgs[1] \in FixedMsgs /\ msgs[1].cl = MaxBody
    /\ wire = Encode(msgs[1])
    /\ results[2].outcome = "RemoteDisconnected"

\* =========================================================== print claims
\* C8: the first select that returns no ready stream ends the call: print
\* returns (no further wait, no read, no write), and once it has returned
\* nothing the streams produce reaches a sink; a call whose only select
\* timed out has written nothing.
C8_TimeoutEndsCall ==
    [][/\ (ppc = "events" /\ events = <<>>)
            => (ppc' = "idle" /\ lastReturn' = "timeout"
                /\ sink' = sink /\ rpos' = rpos)
       /\ (ppc = "idle" /\ ppc' = "idle") => (sink' = sink /\ rpos' = rpos)
       /\ (ppc' = "idle" /\ lastReturn' = "timeout" /\ waits' = 1)
            => ~wrote']_vars

C8_Witness ==
    /\ ppc = "idle" /\ lastReturn = "timeout" /\ wrote
    /\ \E s \in Streams :
           /\ removed[s] = "no"
           /\ sink[s] # <<>>
           /\ Len(produced[s]) > Len(sink[s])

\* C9: what each sink holds is, at every moment, exactly the bytes read from
\* its own stream, in order: a prefix of what the child produced on it.
C9_SinkIsPrefix ==
    \A s \in Streams :
        /\ IsPrefix(sink[s], produced[s])
        /\ Len(sink[s]) = rpos[s]

C9_Witness ==
    /\ prints = MaxPrints /\ ppc = "idle" /\ lastReturn = "timeout"
    /\ Len(sink["stdout"]) = MaxProduced
    /\ sink["stderr"] # <<>>
    /\ Len(produced["stderr"]) > Len(sink["stderr"])

\* C10: a started print call returns; when it returns, every stream it did
\* not drop for a read error has had all the bytes produced so far delivered
\* to its sink; and once every stream is removed it returns without another
\* select.
C10_Terminates ==
    /\ (ppc # "idle") ~> (ppc = "idle")
    /\ [][/\ (ppc # "idle" /\ ppc' = "idle")
               => \A s \in Streams :
                      removed'[s] # "error" => sink'[s] = produced'[s]
          /\ (ppc = "events" /\ \A s \in Streams : removed'[s] # "no")
               => ppc' = "idle"]_vars

C10_Witness ==
    /\ prints = 1 /\ ppc = "idle" /\ lastReturn = "timeout"
    /\ removed["stdout"] = "eof"
    /\ Len(sink["stdout"]) = MaxProduced
    /\ removed["stderr"] = "no" /\ ~weof["stderr"]
    /\ sink["stderr"] = produced["stderr"]
    /\ sink["stderr"] # <<>>

\* C20: in a print cycle, for every stream the selector reported: a
\* non-empty read is appended to that stream's own sink and flushed before
\* the next select, and the stream stays registered and active; an empty
\* read (end of file) unregisters it; a stream print has unregistered is
\* not registered and not read for the rest of that call.
C20_CycleHandling ==
    [][/\ (ppc = "events" /\ events # <<>>) =>
             \A i \in 1..Len(events) :
                 LET s == events[i]
                 IN  /\ (Unread(s) # <<>> /\ ~err[s]) =>
                           /\ sink'[s] = sink[s] \o Take(Unread(s), MaxRead)
                           /\ flushed'[s] = Len(sink'[s])
                           /\ s \in registered'
                           /\ \E k \in 1..Len(fds_active') : fds_active'[k] = s
                           /\ ppc' = "select"
                     /\ (Unread(s) = <<>> /\ weof[s] /\ ~err[s]) =>
                           /\ s \notin registered'
                           /\ \A k \in 1..Len(fds_active') : fds_active'[k] # s
                           /\ removed'[s] = "eof"
                           /\ sink'[s] = sink[s]
       /\ \A s \in Streams :
              (removed[s] # "no" /\ prints' = prints) =>
                  /\ s \notin registered /\ s \notin registered'
                  /\ rpos'[s] = rpos[s]
                  /\ removed'[s] = removed[s]
       /\ (ppc' = "select") => \A s \in Streams : flushed'[s] = Len(sink'[s])]_vars

C20_Witness ==
    /\ ppc = "select" /\ waits = 2
    /\ removed["stderr"] = "eof" /\ "stderr" \notin registered
    /\ removed["stdout"] = "no" /\ "stdout" \in registered
    /\ Len(sink["stdout"]) = MaxRead /\ flushed["stdout"] = MaxRead
    /\ Len(produced["stdout"]) > MaxRead

\* ====================================================== lifecycle claims
\* The positions in a trace of the calls named c.
CallsOf(t, c) == {i \in 1..Len(t) : t[i][2] = c}

\* The drain met no fault and no stream in an error state.
CleanDrain ==
    /\ op.name = "drain"
    /\ \A i \in 1..Len(op.args) : op.args[i] \in {"none"} \cup WouldBlock
    /\ \A s \in Streams : ~err[s]

\* C11: a drain on a stream holding a finite amount of data, with no
\* further production, ends, waits in no read, and leaves nothing that a
\* read would return at once.
C11_DrainEmpties ==
    CleanDrain =>
        /\ op.outcome = "returned"
        /\ CallsOf(op.trace, "wait") = {}
        /\ (made = "process" /\ ~p_closed) => \A s \in Streams : Unread(s) = <<>>
        /\ (made = "socket" /\ ~obj_closed) => pos = Len(wire)

\* C12: drain returns normally whatever goes wrong under it: a closed or
\* invalid stream, a read that would block or fails, a mode that cannot be
\* set or restored.
C12_DrainNeverRaises == op.name = "drain" => op.outcome = "returned"

C12_Witness ==
    /\ made = "process" /\ op.name = "drain" /\ ~p_closed
    /\ op.args = <<"fileno", "none">>
    /\ op.outcome = "returned"
    /\ rpos["stderr"] = 1

\* C13: whenever no print call is in progress, each stream of the child is
\* in the blocking mode it had when the proxy was made.
C13_ModeRestored == ppc = "idle" => \A s \in Streams : ~nonblock[s]

\* C14: once ProcessProxy.close() has completed, every operation returns
\* without a call on any stream or on the child: write and send return 0,
\* read, recv and readline return b"", drain, print and close return at
\* once, and no sink, stream or child state changes.
C14_ClosedProxyInert ==
    [][(made = "process" /\ p_closed) =>
          /\ (ops' = ops + 1 /\ prints' = prints) =>
                 /\ op'.outcome = "returned"
                 /\ op'.trace = <<>>
                 /\ op'.name \in {"write", "send"} => (op'.ret = "count" /\ op'.n = 0)
                 /\ op'.name \in ReadNames => (op'.ret = "bytes" /\ op'.n = 0)
                 /\ op'.name \in {"drain", "close", "sendall"} => op'.ret = "None"
          /\ (prints' = prints + 1) => (lastReturn' = "closed" /\ op' = op)
          /\ ppc' = "idle"
          /\ sink' = sink /\ flushed' = flushed /\ rpos' = rpos
          /\ nonblock' = nonblock /\ registered' = registered
          /\ sclosed' = sclosed /\ child' = child /\ p_closed']_vars

C14_Witness ==
    /\ made = "process" /\ p_closed
    /\ op.name = "readline" /\ op.ret = "bytes" /\ op.n = 0 /\ op.trace = <<>>
    /\ Unread("stdout") # <<>>

\* C15: once FlushProxy.close() has completed, read, recv, readline,
\* write, drain and read_http_res return an empty result and raise
\* nothing.
C15_ClosedFlushProxyGraceful ==
    (made = "socket" /\ closed) =>
        /\ (op.name \in ReadNames \cup WriteNames \cup {"drain"}) =>
               (op.outcome = "returned" /\ op.n = 0)
        /\ \A i \in 1..Len(results) : results[i].outcome # "ValueError"

C17_WriteThenFlush ==
    (/\ op.name \in WriteNames /\ op.outcome = "returned"
     /\ \/ made = "process" /\ ~p_closed
        \/ made = "socket" /\ ~closed) =>
        LET obj == IF made = "process" THEN "stdin" ELSE "obj"
        IN  /\ op.trace = <<<<obj, "write">>, <<obj, "flush">>>>
            /\ op.unflushed = 0
            /\ op.name # "sendall" =>
                   (op.ret = "count" /\ op.args = <<DigitSym(op.n)>>)
            /\ op.name = "sendall" => op.ret = "None"

C17_Witness ==
    /\ made = "socket" /\ ~closed /\ ops = MaxOps
    /\ op.name = "send" /\ op.ret = "count" /\ op.n = 1

\* C19: when sock_open raises after it connected, because the handshake
\* failed, the scheme is unknown or makefile failed, the socket is closed;
\* for a failed handshake and an unknown scheme what it raises is
\* SocketURLError; for a URL without host or port it raises
\* SocketURLError having attempted no connection.
C19_SockOpenFailures ==
    (op.name = "sock_open") =>
        LET url == op.args[1]
            connected == url = "ok" /\ op.args[2] = "ok" /\ op.args[3] = "ok"
            scheme == op.args[4]
            handshake_failed == scheme \in {"tls", "ssl"} /\ op.args[5] # "ok"
            bad_scheme == scheme \notin {"tcp", "tls", "ssl"}
        IN  /\ (connected /\ op.outcome # "returned") => sk = "closed"
            /\ (connected /\ (handshake_failed \/ bad_scheme)) =>
                   op.outcome = "SocketURLError"
            /\ (url # "ok") => (op.outcome = "SocketURLError" /\ op.trace = <<>>)

\* C18: a waitprint call on a child that exits once its output has been
\* accepted returns, and by then every byte the child's program writes has
\* been written to the sink of its stream.
C18_WaitprintDelivers ==
    (wp = "wait") ~>
        (/\ WaitPrintDone
         /\ \A s \in Streams : Len(sink[s]) = plan[s] /\ sink[s] = produced[s])

\* ====================================================== more print claims
\* The selector reported s and the read on it raises.
ReadFails(s) == \E i \in 1..Len(events) : events[i] = s /\ err[s]

\* The selector reported s and the read on it finds nothing to return,
\* the stream not being at end of file.
ReadWouldBlock(s) ==
    \E i \in 1..Len(events) : events[i] = s /\ ~err[s] /\ Unread(s) = <<>> /\ ~weof[s]

\* The selector reported s and the read on it returns bytes.
ReadGivesData(s) ==
    \E i \in 1..Len(events) : events[i] = s /\ ~err[s] /\ Unread(s) # <<>>

\* C21: when a read raises in a print cycle, that stream and no other is
\* removed from the wait-set: a stream that was not reported, or whose read
\* returned bytes, stays registered, its bytes reach its sink, and the call
\* goes on to the next select instead of ending with the error.
C21_ReadErrorIsLocal ==
    [][(ppc = "events") =>
          \A s \in Streams : ReadFails(s) =>
              /\ removed'[s] = "error"
              /\ s \notin registered'
              /\ \A k \in 1..Len(fds_active') : fds_active'[k] # s
              /\ sink'[s] = sink[s]
              /\ ppc' \in {"select", "idle"}
              /\ \A t \in registered \ {s} :
                     /\ (t \notin {events[i] : i \in 1..Len(events)} \/ ReadGivesData(t)) =>
                            /\ t \in registered'
                            /\ removed'[t] = "no"
                            /\ ppc' = "select"
                     /\ ReadGivesData(t) =>
                            sink'[t] = sink[t] \o Take(Unread(t), MaxRead)]_vars

C21_Witness ==
    /\ ppc = "idle" /\ prints = 1 /\ waits = 2
    /\ removed["stdout"] = "error" /\ err["stdout"]
    /\ Len(produced["stdout"]) > rpos["stdout"]
    /\ removed["stderr"] = "eof"
    /\ Len(sink["stderr"]) = MaxProduced

\* C22: a read that would block in a print cycle changes nothing: nothing
\* is written and the stream stays registered and active for the rest of
\* the call.
C22_WouldBlockKeepsStream ==
    [][(ppc = "events") =>
          \A s \in Streams : ReadWouldBlock(s) =>
              /\ sink'[s] = sink[s]
              /\ s \in registered'
              /\ \E k \in 1..Len(fds_active') : fds_active'[k] = s
              /\ removed'[s] = "no"]_vars

\* ================================================== more lifecycle claims
\* The drain reached its read loop: the mode was read and set.
LoopEntered(args) ==
    \A i \in 1..Len(args) : args[i] \notin {"fileno", "getfl", "setfl", "gettimeout", "settimeout"}

\* C23: a drain that reached its read loop puts back the mode it found,
\* however the loop ended (empty read, would-block, raised error): after
\* ProcessProxy.drain each stream's O_NONBLOCK flag, and after
\* FlushProxy.drain the socket's timeout, is what it was before the call,
\* and the call that puts it back is the last one made on the stream.
C23_DrainRestoresMode ==
    [][(op'.name = "drain" /\ ops' = ops + 1 /\ prints' = prints
        /\ LoopEntered(op'.args)) =>
          /\ (\A i \in 1..Len(op'.args) : op'.args[i] # "restore") =>
                 (nonblock' = nonblock /\ tmo' = tmo)
          /\ \A i \in CallsOf(op'.trace, "read") :
                 \E j \in CallsOf(op'.trace, "setfl") \cup CallsOf(op'.trace, "settimeout") :
                     j > i /\ op'.trace[j][1] \in {op'.trace[i][1], "raw"}]_vars

C23_Witness ==
    /\ made = "process" /\ op.name = "drain" /\ op.outcome = "returned"
    /\ op.args = <<"none", "none">>
    /\ err["stdout"] /\ ~weof["stderr"]
    /\ rpos["stderr"] = 1
    /\ Cardinality(CallsOf(op.trace, "read")) = 3
    /\ \A s \in Streams : ~nonblock[s]

\* C24: a close() on a proxy whose close() has completed makes no call at
\* all (no drain, no close of a stream, no signal to the child) and changes
\* nothing; and once ProcessProxy.close() has completed, stdin, stdout and
\* stderr are closed and the child has exited or has been sent a kill.
C24_CloseIdempotent ==
    /\ [][(op'.name = "close" /\ ops' = ops + 1 /\ prints' = prints
           /\ ((made = "process" /\ p_closed) \/ (made = "socket" /\ closed))) =>
              /\ op'.outcome = "returned" /\ op'.trace = <<>>
              /\ p_closed' = p_closed /\ closed' = closed /\ obj_closed' = obj_closed
              /\ sclosed' = sclosed /\ child' = child
              /\ rpos' = rpos /\ pos' = pos /\ nonblock' = nonblock /\ tmo' = tmo]_vars
    /\ [](p_closed => (sclosed = {"stdin", "stdout", "stderr"} /\ child # "running"))
    /\ [](closed => obj_closed)

C24_Witness ==
    /\ made = "process" /\ p_closed /\ auto_drain
    /\ ops = MaxOps /\ op.name = "close" /\ op.trace = <<>>
    /\ child = "killed"
    /\ Unread("stderr") # <<>>

\* C25: once pysock_url.sock_open has connected, control never leaves the
\* context manager with the socket open or the file object open: not when
\* the body ends normally or raises, and not when the TLS wrapping or the
\* scheme check fails; a file object that was made is closed before the
\* socket.
C25_ContextReleases ==
    (cm.state = "left" /\ cm.sock # "none") =>
        /\ cm.sock = "closed"
        /\ cm.file # "open"
        /\ cm.trace[Len(cm.trace)] = <<"sock", "close">>
        /\ \A i \in CallsOf(cm.trace, "close") :
               cm.trace[i][1] = "file_obj" => i = Len(cm.trace) - 1

C25_Witness ==
    /\ cm.state = "left" /\ cm.exc = "BodyError"
    /\ cm.sock = "closed" /\ cm.file = "closed"
    /\ Len(cm.trace) = 5

====
